---- MODULE Spec2Model ----
(***************************************************************************)
(* Show settlement calculator: the Stripe webhook reconciler               *)
(* (app/api/webhooks/stripe/route.ts), the entitlement resolver            *)
(* (lib/access/entitlements.ts), the manual grant scripts and the share    *)
(* link routes, over the two Postgres tables user_subscriptions and        *)
(* user_entitlements and the table share_links.                            *)
(*                                                                         *)
(* Columns that no handler reads and that only the database fills in       *)
(* (created_at, granted_at, granted_by, updated_at) are not part of the    *)
(* rows below; stripe_price_id, current_period_start and                   *)
(* cancel_at_period_end are copied verbatim from the same subscription     *)
(* object as status and current_period_end and are represented by those.   *)
(***************************************************************************)
EXTENDS Integers, FiniteSets, Sequences, TLC

VARIABLES
    subs,      \* table user_subscriptions: a set of rows
    ents,      \* table user_entitlements: a set of rows
    last,      \* the last request served by the sequential specification
    again,     \* the redelivery of the last request's event, when there was one
    access,    \* the last hasProAccess call: [user, now, failed, result]
    pc,        \* concurrent deliveries: the await each one is at
    job,       \* concurrent deliveries: the event and the handler's local variables
    base,      \* the tables as they were when the concurrent deliveries started
    clean,     \* no manual grant was made since the concurrent deliveries started
    upserted,  \* the last entitlement upsert, while no update has touched the table
    nSetup,    \* the deliveries and grants made before the concurrent ones
    links,     \* table share_links: a set of rows
    spc,       \* share link requests: the await each one is at
    sjob,      \* share link requests: caller, show and response
    nShare,    \* the share link requests started
    view,      \* a page request: who asks for which path, and what comes back
    formData,      \* the calculator's inputs, as typed
    result,        \* the calculation output, NoResult when there is none
    errorMessage,  \* the validation error shown, "" when there is none
    fresh,         \* whether handleCalculate ran after the last input change
    twice,         \* whether it ran at least twice since that change
    showName,      \* the show name field, as typed
    currentShowId, \* the id of the session's show record, NoShowId before a save
    saveStatus,    \* "idle", "saving", "success" or "error"
    saveMessage,   \* the save status message shown, "" when there is none
    shows,         \* table shows: the sequence of rows, a row's id is its index
    timers,        \* the pending status-clearing timeouts
    flight,        \* the insert and update requests sent and not yet resolved
    nSaves         \* the handleSaveShow calls made

seqVars == <<last, again, access>>
concVars == <<pc, job, base, clean, upserted, nSetup>>
shareVars == <<links, spc, sjob, nShare, view>>
calcVars == <<formData, result, errorMessage, fresh, twice>>
saveVars ==
    <<showName, currentShowId, saveStatus, saveMessage, shows, timers, flight, nSaves>>
vars == <<subs, ents, seqVars, concVars, shareVars, calcVars, saveVars>>

NULL == "null"

\* ------------------------------------------------------------------ bounds
MaxPeriodEnd == 1      \* current_period_end ranges over 1..MaxPeriodEnd (seconds)
MaxSetup == 1          \* deliveries and grants besides the two concurrent deliveries
MaxShareRequests == 3  \* share link requests
SignificandBits == 5   \* significant bits of a number (53 in the program)
FractionBits == 3      \* the smallest positive number is 2^-FractionBits
MagnitudeBits == 10    \* numbers of 2^MagnitudeBits smallest units overflow
MaxSaves == 3          \* handleSaveShow calls of one calculator session

\* ------------------------------------------------------- program constants
MsPerSecond == 1000    \* new Date(periodEnd * 1000)
NoPeriodEnd == 0       \* a falsy current_period_end (undefined, null or 0)
NullTime == 0          \* a null timestamp column (expires_at, current_period_end)

\* ---------------------------------------------------------------- universe
Users == {"u1", "u2"}
StripeSubs == {"s1", "s2"}
\* session.metadata.supabase_user_id of the checkout that created the subscription
SubUser(s) == "u1"
\* sub.customer: a checkout made without a customer id creates a new customer
SubCustomer(s) == IF s = "s1" THEN "c1" ELSE "c2"

\* the subscription statuses Stripe reports in the modelled deliveries; the
\* handlers themselves write "canceled" and "past_due"
StripeStatuses == {"active", "trialing", "past_due"}
\* sub.current_period_end in seconds; NoPeriodEnd when the object carries none
PeriodEnds == {NoPeriodEnd} \cup (1..MaxPeriodEnd)

\* new Date(periodEnd * 1000).toISOString(), as milliseconds since the epoch
ToTimestamp(periodEnd) ==
    IF periodEnd = NoPeriodEnd THEN NullTime ELSE periodEnd * MsPerSecond

ExpiryTimes == {ToTimestamp(t) : t \in 1..MaxPeriodEnd}
\* the instants at which access is checked: around every expiry
Nows == UNION {{t - 1, t, t + 1} : t \in ExpiryTimes}

\* ------------------------------------------------------- datastore queries
\* .eq(column, value).single(): data only when exactly one row matches
Found(rows) == Cardinality(rows) = 1
Single(rows) == CHOOSE r \in rows : TRUE

SubsBySubId(rows, s) == {r \in rows : r.sub = s}
SubsByUser(rows, u) == {r \in rows : r.user = u}

\* unique (stripe_customer_id), unique (stripe_subscription_id)
SubsUnique(rows) ==
    \A r1, r2 \in rows :
        r1 # r2 => (r1.sub # r2.sub /\ r1.customer # r2.customer)

\* id uuid default gen_random_uuid(): a value no other row of the table has
NewId(rows) == Cardinality(rows) + 1

MirrorRow(id, u, s, st, pe) ==
    [id |-> id, user |-> u, customer |-> SubCustomer(s), sub |-> s, status |-> st,
     period_end |-> ToTimestamp(pe)]

\* a variant for a table without the unique indexes
InsertAcceptedWithoutIndex(rows, row, ok) == ok

\* .insert({...}) into user_subscriptions; a failed or rejected write changes nothing
InsertAccepted(rows, row, ok) ==
    ok /\ SubsUnique(rows \cup {row})

InsertSub(rows, row, ok) ==
    IF InsertAccepted(rows, row, ok) THEN rows \cup {row} ELSE rows

\* .update({...}).eq(...): every matching row gets the new column values, unless
\* the write fails or a unique index rejects the result
\* (change maps each matching row to the row it becomes)
UpdateResult(rows, change) ==
    (rows \ DOMAIN change) \cup {change[r] : r \in DOMAIN change}

UpdateAccepted(rows, change, ok) ==
    ok /\ SubsUnique(UpdateResult(rows, change))

UpdateSubs(rows, change, ok) ==
    IF UpdateAccepted(rows, change, ok) THEN UpdateResult(rows, change) ELSE rows

\* the rows a write statement stores anew; the before-update trigger
\* handle_updated_at sets updated_at = now() on each of them
Touched(accepted, matching) == IF accepted THEN Cardinality(matching) ELSE 0

EntRow(u, src, st, exp, meta) ==
    [user |-> u, source |-> src, status |-> st, expires_at |-> exp, meta |-> meta]

\* a variant that inserts without looking for a conflicting row
UpsertEntInsertOnly(rows, row, ok) == IF ~ok THEN rows ELSE rows \cup {row}

\* insert ... on conflict (user_id) do update set ...
UpsertEnt(rows, row, ok) ==
    IF ~ok THEN rows
    ELSE {r \in rows : r.user # row.user} \cup {row}

\* a variant whose source filter matches no row
DeactivateEntOfNoSource(rows, u, ok) == rows

\* .update({status: "inactive"}).eq("user_id", u).eq("source", "stripe")
DeactivateStripeEnt(rows, u, ok) ==
    IF ~ok THEN rows
    ELSE {IF r.user = u /\ r.source = "stripe"
          THEN [r EXCEPT !.status = "inactive"] ELSE r : r \in rows}

\* a variant that counts only "active"
EntitlementStatusActiveOnly(st) == IF st = "active" THEN "active" ELSE "inactive"

\* sub.status === "active" || sub.status === "trialing" ? "active" : "inactive"
EntitlementStatus(st) ==
    IF st = "active" \/ st = "trialing" THEN "active" ELSE "inactive"

StripeEnt(u, s, st, pe) ==
    EntRow(u, "stripe", EntitlementStatus(st), ToTimestamp(pe), s)

\* ----------------------------------------------------------------- events
CheckoutCompleted == "checkout.session.completed"
SubscriptionUpdated == "customer.subscription.updated"
SubscriptionDeleted == "customer.subscription.deleted"
InvoicePaymentFailed == "invoice.payment_failed"
OtherEvent == "customer.created"

Event(type, s, u, st, pe) ==
    [type |-> type, sub |-> s, user |-> u, status |-> st, period_end |-> pe]

\* the payloads Stripe sends: a checkout session carries the subscription id and
\* the user id in its metadata (either may be missing), a subscription event the
\* subscription object, an invoice the subscription id (or none)
Events ==
    {Event(CheckoutCompleted, s, SubUser(s), NULL, NoPeriodEnd) : s \in StripeSubs}
    \cup {Event(CheckoutCompleted, NULL, "u1", NULL, NoPeriodEnd),
          Event(CheckoutCompleted, "s1", NULL, NULL, NoPeriodEnd)}
    \cup {Event(SubscriptionUpdated, s, NULL, st, pe) :
            s \in StripeSubs, st \in StripeStatuses, pe \in PeriodEnds}
    \cup {Event(SubscriptionDeleted, s, NULL, "canceled", NoPeriodEnd) : s \in StripeSubs}
    \cup {Event(InvoicePaymentFailed, s, NULL, NULL, NoPeriodEnd) :
            s \in StripeSubs \cup {NULL}}
    \cup {Event(OtherEvent, NULL, NULL, NULL, NoPeriodEnd)}

\* the bodies of the requests that do not come from Stripe
ForgedEvents ==
    {Event(CheckoutCompleted, "s1", "u1", NULL, NoPeriodEnd),
     Event(SubscriptionDeleted, "s1", NULL, "canceled", NoPeriodEnd)}

\* what the outside world does during one handler run: whether
\* stripe.subscriptions.retrieve answers and with which subscription object,
\* and whether each datastore write goes through
Env(rok, st, pe, okm, oke) ==
    [retrieveOk |-> rok, status |-> st, period_end |-> pe, okMirror |-> okm,
     okEnt |-> oke]

QuietEnv == Env(TRUE, "active", NoPeriodEnd, TRUE, TRUE)

\* the environments that make a difference to the handler of ev
EnvsFor(ev) ==
    IF ev.type = CheckoutCompleted /\ ev.sub # NULL
    THEN {Env(TRUE, st, pe, okm, oke) :
            st \in StripeStatuses, pe \in PeriodEnds, okm \in BOOLEAN, oke \in BOOLEAN}
         \cup {Env(FALSE, "active", NoPeriodEnd, TRUE, TRUE)}
    ELSE IF ev.type \in {SubscriptionUpdated, SubscriptionDeleted, InvoicePaymentFailed}
            /\ ev.sub # NULL
    THEN {Env(TRUE, "active", NoPeriodEnd, okm, oke) : okm \in BOOLEAN, oke \in BOOLEAN}
    ELSE {QuietEnv}

\* what a handler run leaves: the tables, the number of datastore calls it made,
\* the number of rows its writes stored, and whether it threw
Outcome(S, E, ops, threw) ==
    [subs |-> S, ents |-> E, ops |-> ops, threw |-> threw, stored |-> 0]

Wrote(S, E, ops, stored) ==
    [subs |-> S, ents |-> E, ops |-> ops, threw |-> FALSE, stored |-> stored]

StripeEntsOf(rows, u) == {r \in rows : r.user = u /\ r.source = "stripe"}

\* ---------------------------------------------------------------- handlers
\* the write to user_subscriptions of handleCheckoutSessionCompleted: an update
\* of the user's row when the user lookup found one, else an insert
CheckoutRow(ev, obj, S) == MirrorRow(NewId(S), ev.user, ev.sub, obj.status, obj.period_end)

CheckoutChange(ev, obj, r) ==
    [r EXCEPT !.customer = SubCustomer(ev.sub), !.sub = ev.sub, !.status = obj.status,
              !.period_end = ToTimestamp(obj.period_end)]

CheckoutUpdate(ev, obj, S) ==
    [r \in SubsByUser(S, ev.user) |-> CheckoutChange(ev, obj, r)]

CheckoutWriteMirror(ev, obj, found, S, ok) ==
    IF found THEN UpdateSubs(S, CheckoutUpdate(ev, obj, S), ok)
    ELSE InsertSub(S, CheckoutRow(ev, obj, S), ok)

CheckoutStored(ev, obj, found, S, ok) ==
    IF found
    THEN Touched(UpdateAccepted(S, CheckoutUpdate(ev, obj, S), ok), SubsByUser(S, ev.user))
    ELSE Touched(InsertAccepted(S, CheckoutRow(ev, obj, S), ok), {ev.sub})

\* the upsert into user_entitlements of handleCheckoutSessionCompleted
CheckoutWriteEnt(ev, obj, E, ok) ==
    UpsertEnt(E, StripeEnt(ev.user, ev.sub, obj.status, obj.period_end), ok)

handleCheckoutSessionCompleted(ev, env, S, E) ==
    IF ev.sub = NULL THEN Outcome(S, E, 0, FALSE)
    ELSE IF ~env.retrieveOk THEN Outcome(S, E, 0, TRUE)
    ELSE IF ev.user = NULL THEN Outcome(S, E, 0, FALSE)
    ELSE IF Found(SubsBySubId(S, ev.sub)) THEN Outcome(S, E, 1, FALSE)
    ELSE
        LET found == Found(SubsByUser(S, ev.user)) IN
        Wrote(CheckoutWriteMirror(ev, env, found, S, env.okMirror),
              CheckoutWriteEnt(ev, env, E, env.okEnt),
              4,
              CheckoutStored(ev, env, found, S, env.okMirror)
                  + Touched(env.okEnt, {ev.user}))

\* the writes of handleSubscriptionUpdated
UpdatedChange(ev, r) ==
    [r EXCEPT !.status = ev.status, !.period_end = ToTimestamp(ev.period_end)]

UpdatedUpdate(ev, S) == [r \in SubsBySubId(S, ev.sub) |-> UpdatedChange(ev, r)]

UpdatedWriteMirror(ev, S, ok) == UpdateSubs(S, UpdatedUpdate(ev, S), ok)

UpdatedWriteEnt(ev, owner, E, ok) ==
    UpsertEnt(E, StripeEnt(owner, ev.sub, ev.status, ev.period_end), ok)

handleSubscriptionUpdated(ev, env, S, E) ==
    LET existing == SubsBySubId(S, ev.sub)
    IN  IF ~Found(existing) THEN Outcome(S, E, 1, FALSE)
        ELSE Wrote(UpdatedWriteMirror(ev, S, env.okMirror),
                   UpdatedWriteEnt(ev, Single(existing).user, E, env.okEnt),
                   3,
                   Touched(UpdateAccepted(S, UpdatedUpdate(ev, S), env.okMirror), existing)
                       + Touched(env.okEnt, existing))

\* handleSubscriptionDeleted and handleInvoicePaymentFailed differ in the status
\* they set
TargetStatus(type) == IF type = SubscriptionDeleted THEN "canceled" ELSE "past_due"

MarkChange(target, r) == [r EXCEPT !.status = target]

MarkUpdate(s, target, S) == [r \in SubsBySubId(S, s) |-> MarkChange(target, r)]

MarkWriteMirror(s, target, S, ok) == UpdateSubs(S, MarkUpdate(s, target, S), ok)

\* "already canceled" / "already marked past_due"
AlreadyMarked(existing, target) == Single(existing).status = target

\* a variant that throws when one of its writes fails
MarkSubscriptionThrowing(s, target, env, S, E) ==
    LET existing == SubsBySubId(S, s) IN
    IF ~Found(existing) THEN Outcome(S, E, 1, FALSE)
    ELSE IF AlreadyMarked(existing, target) THEN Outcome(S, E, 1, FALSE)
    ELSE IF ~env.okMirror THEN Outcome(S, E, 2, TRUE)
    ELSE IF ~env.okEnt
    THEN Outcome(MarkWriteMirror(s, target, S, TRUE), E, 3, TRUE)
    ELSE Wrote(MarkWriteMirror(s, target, S, TRUE),
               DeactivateStripeEnt(E, Single(existing).user, TRUE), 3, 2)

\* a variant without the "already canceled" / "already marked" check
MarkSubscriptionUnchecked(s, target, env, S, E) ==
    LET existing == SubsBySubId(S, s)
    IN  IF ~Found(existing) THEN Outcome(S, E, 1, FALSE)
        ELSE Wrote(MarkWriteMirror(s, target, S, env.okMirror),
                   DeactivateStripeEnt(E, Single(existing).user, env.okEnt),
                   3,
                   Touched(UpdateAccepted(S, MarkUpdate(s, target, S), env.okMirror), existing)
                       + Touched(env.okEnt, StripeEntsOf(E, Single(existing).user)))

MarkSubscription(s, target, env, S, E) ==
    LET existing == SubsBySubId(S, s)
    IN  IF ~Found(existing) THEN Outcome(S, E, 1, FALSE)
        ELSE IF AlreadyMarked(existing, target) THEN Outcome(S, E, 1, FALSE)
        ELSE Wrote(MarkWriteMirror(s, target, S, env.okMirror),
                   DeactivateStripeEnt(E, Single(existing).user, env.okEnt),
                   3,
                   Touched(UpdateAccepted(S, MarkUpdate(s, target, S), env.okMirror), existing)
                       + Touched(env.okEnt, StripeEntsOf(E, Single(existing).user)))

handleSubscriptionDeleted(ev, env, S, E) ==
    MarkSubscription(ev.sub, TargetStatus(SubscriptionDeleted), env, S, E)

handleInvoicePaymentFailed(ev, env, S, E) ==
    IF ev.sub = NULL THEN Outcome(S, E, 0, FALSE)
    ELSE MarkSubscription(ev.sub, TargetStatus(InvoicePaymentFailed), env, S, E)

\* switch (event.type)
Dispatch(ev, env, S, E) ==
    CASE ev.type = CheckoutCompleted -> handleCheckoutSessionCompleted(ev, env, S, E)
      [] ev.type = SubscriptionUpdated -> handleSubscriptionUpdated(ev, env, S, E)
      [] ev.type = SubscriptionDeleted -> handleSubscriptionDeleted(ev, env, S, E)
      [] ev.type = InvoicePaymentFailed -> handleInvoicePaymentFailed(ev, env, S, E)
      [] OTHER -> Outcome(S, E, 0, FALSE)

\* ------------------------------------------------------------------- route
Signatures == {"missing", "invalid", "valid"}

Request(sig, secret, ev, env) ==
    [sig |-> sig, secretSet |-> secret, ev |-> ev, env |-> env]

Served(req, out, handled, status, body) ==
    [kind |-> "webhook", req |-> req, status |-> status, body |-> body,
     handled |-> handled, ops |-> out.ops, stored |-> out.stored,
     subs |-> out.subs, ents |-> out.ents]

\* a variant that dispatches whatever signature the request carries
POSTWithoutVerification(req, S, E) ==
    LET out == Dispatch(req.ev, req.env, S, E) IN
    IF req.sig = "missing"
    THEN Served(req, Outcome(S, E, 0, FALSE), FALSE, 400, "No signature provided")
    ELSE IF out.threw
    THEN Served(req, out, TRUE, 500, "Webhook processing failed")
    ELSE Served(req, out, TRUE, 200, "received")

\* export async function POST(request)
POST(req, S, E) ==
    LET untouched == Outcome(S, E, 0, FALSE) IN
    IF req.sig = "missing"
    THEN Served(req, untouched, FALSE, 400, "No signature provided")
    ELSE IF ~req.secretSet
    THEN Served(req, untouched, FALSE, 500, "Webhook secret not configured")
    ELSE IF req.sig # "valid"
    THEN Served(req, untouched, FALSE, 400, "Invalid signature")
    ELSE
        LET out == Dispatch(req.ev, req.env, S, E) IN
        IF out.threw
        THEN Served(req, out, TRUE, 500, "Webhook processing failed")
        ELSE Served(req, out, TRUE, 200, "received")

\* ---------------------------------------------------- entitlement resolver
EntsByUser(rows, u) == {r \in rows : r.user = u}

\* a variant that treats a row expiring at this very instant as expired
hasProAccessExpiredAtNow(E, userId, now, lookupOk) ==
    LET found == EntsByUser(E, userId) IN
    IF ~lookupOk \/ ~Found(found) THEN FALSE
    ELSE IF Single(found).status # "active" THEN FALSE
    ELSE IF Single(found).expires_at # NullTime /\ Single(found).expires_at <= now
    THEN FALSE
    ELSE TRUE

\* export async function hasProAccess(userId), called at instant now;
\* lookupOk is false when the query returns an error
hasProAccess(E, userId, now, lookupOk) ==
    LET found == EntsByUser(E, userId) IN
    IF ~lookupOk \/ ~Found(found) THEN FALSE
    ELSE IF Single(found).status # "active" THEN FALSE
    ELSE IF Single(found).expires_at # NullTime /\ Single(found).expires_at < now
    THEN FALSE
    ELSE TRUE

\* export async function hasProAccessClient(): the signed-in user's access,
\* none when nobody is signed in
hasProAccessClient(E, user, now, lookupOk) ==
    IF user = NULL THEN FALSE ELSE hasProAccess(E, user, now, lookupOk)

\* getUserEntitlement returning null
NoEntitlement == [none |-> TRUE]

\* a variant that returns the row it finds whatever the query reports
getUserEntitlementIgnoringError(E, userId, lookupOk) ==
    IF Found(EntsByUser(E, userId)) THEN Single(EntsByUser(E, userId))
    ELSE NoEntitlement

\* export async function getUserEntitlement(userId)
getUserEntitlement(E, userId, lookupOk) ==
    IF ~lookupOk \/ ~Found(EntsByUser(E, userId)) THEN NoEntitlement
    ELSE Single(EntsByUser(E, userId))

\* export async function getEntitlementDetails(userId), called at instant now
getEntitlementDetails(E, userId, now, lookupOk) ==
    LET entitlement == getUserEntitlement(E, userId, lookupOk) IN
    IF entitlement = NoEntitlement
    THEN [hasAccess |-> FALSE, entitlement |-> NoEntitlement]
    ELSE [hasAccess |-> /\ entitlement.status = "active"
                        /\ (entitlement.expires_at = NullTime
                            \/ entitlement.expires_at >= now),
          entitlement |-> entitlement]

\* create function has_active_entitlement(check_user_id)
has_active_entitlement(E, userId, now) ==
    LET found == EntsByUser(E, userId) IN
    IF found = {} THEN FALSE
    ELSE IF Single(found).status # "active" THEN FALSE
    ELSE IF Single(found).expires_at # NullTime /\ Single(found).expires_at < now
    THEN FALSE
    ELSE TRUE

\* ---------------------------------------------------- manual administration
\* GRANT_ACCESS.sql, step 2: option A (lifetime comp) and option B (temporary);
\* option C differs from A in the source name only
GrantOptions ==
    {EntRow(u, "manual_comp", "active", NullTime, "manual") : u \in Users}
    \cup {EntRow(u, "test_account", "active", t, "manual") : u \in Users, t \in ExpiryTimes}

\* update user_entitlements set status = 'inactive' ... where user_id = u
RevokeEnt(rows, u) ==
    {IF r.user = u THEN [r EXCEPT !.status = "inactive"] ELSE r : r \in rows}

\* ------------------------------------------------------ settlement numbers
\* The calculator computes with JavaScript numbers.  A number is modelled as a
\* binary floating point value of the same kind at a reduced size: a multiple
\* k of 2^-FractionBits with at most SignificandBits significant bits, rounded
\* to nearest (ties to even), overflowing to Infinity, with NaN.
Fin(k) == [cls |-> "finite", k |-> k]
PosInf == [cls |-> "Infinity", k |-> 0]
NegInf == [cls |-> "-Infinity", k |-> 0]
NaN == [cls |-> "NaN", k |-> 0]

Abs(n) == IF n < 0 THEN -n ELSE n

\* n / d rounded to the nearest integer, ties to the even one (n >= 0, d > 0)
RoundNearestEven(n, d) ==
    LET q == n \div d
        r == n % d
    IN  IF 2 * r < d THEN q
        ELSE IF 2 * r > d THEN q + 1
        ELSE IF q % 2 = 0 THEN q ELSE q + 1

\* the spacing of the numbers around q smallest units
Ulp(q) ==
    LET i == CHOOSE i \in 0..(2 * MagnitudeBits) :
                 /\ q < 2 ^ (SignificandBits + i)
                 /\ (i = 0 \/ q >= 2 ^ (SignificandBits + i - 1))
    IN  2 ^ i

\* the number nearest to num / den smallest units
Round(num, den) ==
    LET a == Abs(num)
        u == Ulp(a \div den)
        k == RoundNearestEven(a, den * u) * u
    IN  IF k >= 2 ^ MagnitudeBits
        THEN IF num < 0 THEN NegInf ELSE PosInf
        ELSE Fin(IF num < 0 THEN -k ELSE k)

\* x * y
Times(x, y) ==
    IF x = NaN \/ y = NaN THEN NaN
    ELSE IF x.cls # "finite" \/ y.cls # "finite"
    THEN IF x = Fin(0) \/ y = Fin(0) THEN NaN
         ELSE IF (x.cls = "-Infinity" \/ x.k < 0) = (y.cls = "-Infinity" \/ y.k < 0)
         THEN PosInf ELSE NegInf
    ELSE Round(x.k * y.k, 2 ^ FractionBits)

\* x / 100
Percent(x) ==
    IF x.cls # "finite" THEN x ELSE Round(x.k, 100)

\* x - y
Minus(x, y) ==
    IF x = NaN \/ y = NaN THEN NaN
    ELSE IF x.cls # "finite"
    THEN IF y.cls = x.cls THEN NaN ELSE x
    ELSE IF y.cls # "finite"
    THEN IF y = PosInf THEN NegInf ELSE PosInf
    ELSE Round(x.k - y.k, 1)

\* x <= y; false when either is NaN
LessOrEqual(x, y) ==
    /\ x # NaN
    /\ y # NaN
    /\ \/ x = NegInf
       \/ y = PosInf
       \/ x.cls = "finite" /\ y.cls = "finite" /\ x.k <= y.k

\* Math.max(x, y); NaN when either is NaN
MathMax(x, y) ==
    IF x = NaN \/ y = NaN THEN NaN
    ELSE IF LessOrEqual(x, y) THEN y ELSE x

\* ---------------------------------------------------- settlement calculator
\* the text of an input field: a decimal numeral (num / den), nothing, or
\* something that is not a numeral
Typed(num, den) == [text |-> "numeral", num |-> num, den |-> den]
Blank == [text |-> "", num |-> 0, den |-> 1]
Junk == [text |-> "abc", num |-> 0, den |-> 1]

\* parseFloat(value)
parseFloat(value) ==
    IF value.text = "numeral"
    THEN Round(value.num * 2 ^ FractionBits, value.den)
    ELSE NaN

\* return isNaN(parsed) ? 0 : parsed
parseNumber(value) ==
    IF parseFloat(value) = NaN THEN Fin(0) ELSE parseFloat(value)

DealTypes == {"guarantee", "percentage", "guarantee_vs_percentage"}

\* what the user may have typed into each field
FieldTexts(name) ==
    IF name = "ticketPrice" THEN {Blank, Typed(-1, 1), Typed(10, 1), Typed(99, 10)}
    ELSE IF name = "ticketsSold" THEN {Blank, Typed(3, 1), Typed(20, 1)}
    ELSE IF name = "taxRate" THEN {Blank, Junk, Typed(10, 1)}
    ELSE IF name = "totalExpenses" THEN {Blank, Typed(501, 10)}
    ELSE IF name = "guarantee" THEN {Blank, Typed(-5, 1), Typed(5, 1), Typed(50, 1)}
    ELSE IF name = "percentage" THEN {Blank, Typed(85, 1)}
    ELSE DealTypes

FieldNames ==
    {"ticketPrice", "ticketsSold", "taxRate", "totalExpenses", "dealType",
     "guarantee", "percentage"}

\* useState<FormData>({...})
EmptyForm ==
    [ticketPrice |-> Blank, ticketsSold |-> Blank, taxRate |-> Blank,
     totalExpenses |-> Blank, dealType |-> "guarantee", guarantee |-> Blank,
     percentage |-> Blank]

\* useState<CalculationResult | null>(null)
NoResult == [none |-> TRUE]

\* useState<string | null>(null) of currentShowId
NoShowId == 0

Zero == Fin(0)

\* a variant that checks the deal's fields before the ticket fields
ValidateDealFirst(f) ==
    LET ticketPrice == parseNumber(f.ticketPrice)
        ticketsSold == parseNumber(f.ticketsSold)
        guarantee == parseNumber(f.guarantee)
        percentage == parseNumber(f.percentage)
    IN  IF f.dealType = "guarantee" /\ LessOrEqual(guarantee, Zero)
        THEN "Please enter a valid guarantee amount."
        ELSE IF f.dealType = "percentage" /\ LessOrEqual(percentage, Zero)
        THEN "Please enter a valid percentage."
        ELSE IF /\ f.dealType = "guarantee_vs_percentage"
                /\ (LessOrEqual(guarantee, Zero) \/ LessOrEqual(percentage, Zero))
        THEN "Please enter both guarantee amount and percentage."
        ELSE IF LessOrEqual(ticketPrice, Zero) \/ LessOrEqual(ticketsSold, Zero)
        THEN "Please enter valid ticket price and tickets sold."
        ELSE ""

\* handleCalculate, step 1: the message of the first check that fails, "" when
\* every check passes
Validate(f) ==
    LET ticketPrice == parseNumber(f.ticketPrice)
        ticketsSold == parseNumber(f.ticketsSold)
        guarantee == parseNumber(f.guarantee)
        percentage == parseNumber(f.percentage)
    IN  IF LessOrEqual(ticketPrice, Zero) \/ LessOrEqual(ticketsSold, Zero)
        THEN "Please enter valid ticket price and tickets sold."
        ELSE IF f.dealType = "guarantee" /\ LessOrEqual(guarantee, Zero)
        THEN "Please enter a valid guarantee amount."
        ELSE IF f.dealType = "percentage" /\ LessOrEqual(percentage, Zero)
        THEN "Please enter a valid percentage."
        ELSE IF /\ f.dealType = "guarantee_vs_percentage"
                /\ (LessOrEqual(guarantee, Zero) \/ LessOrEqual(percentage, Zero))
        THEN "Please enter both guarantee amount and percentage."
        ELSE ""

\* a variant that pays the guarantee whatever the deal
ArtistPayoutGuaranteeOnly(dealType, netProfit, guarantee, percentage) == guarantee

\* handleCalculate, step 5
ArtistPayout(dealType, netProfit, guarantee, percentage) ==
    IF dealType = "guarantee" THEN guarantee
    ELSE IF dealType = "percentage"
    THEN MathMax(Zero, Times(netProfit, Percent(percentage)))
    ELSE IF dealType = "guarantee_vs_percentage"
    THEN MathMax(guarantee, MathMax(Zero, Times(netProfit, Percent(percentage))))
    ELSE Zero

\* handleCalculate, steps 2 to 7
Settle(f) ==
    LET ticketPrice == parseNumber(f.ticketPrice)
        ticketsSold == parseNumber(f.ticketsSold)
        taxRate == parseNumber(f.taxRate)
        totalExpenses == parseNumber(f.totalExpenses)
        guarantee == parseNumber(f.guarantee)
        percentage == parseNumber(f.percentage)
        grossRevenue == Times(ticketPrice, ticketsSold)
        taxAmount == Times(grossRevenue, Percent(taxRate))
        netProfit == Minus(Minus(grossRevenue, taxAmount), totalExpenses)
        artistPayout == ArtistPayout(f.dealType, netProfit, guarantee, percentage)
        venuePayout == Minus(netProfit, artistPayout)
    IN  [grossRevenue |-> grossRevenue, taxAmount |-> taxAmount,
         totalExpenses |-> totalExpenses, netProfit |-> netProfit,
         artistPayout |-> artistPayout, venuePayout |-> venuePayout]

\* -------------------------------------------- grants and row level security
Tables == {"user_entitlements", "user_subscriptions"}
Roles == {"anon", "authenticated", "service_role"}
Commands == {"select", "insert", "update", "delete"}

\* grant <command> on table <table> to <role>
Granted(table, role, cmd) ==
    IF table = "user_entitlements"
    THEN role = "service_role" \/ cmd = "select"
    ELSE TRUE

\* a variant whose policy is declared for all commands
PoliciesForAll(table) == {[cmd |-> "all"]}

\* create policy ... as permissive for select to public
Policies(table) == {[cmd |-> "select"]}

\* using (auth.uid() = user_id); row level security is enabled on both tables,
\* so a command no policy is declared for reaches no row
PolicyAllows(table, cmd, uid, row) ==
    \E pol \in Policies(table) :
        /\ pol.cmd \in {cmd, "all"}
        /\ uid # NULL
        /\ uid = row.user

\* the service role is not subject to row level security
BypassesPolicies(role) == role = "service_role"

RowAllowed(table, role, cmd, uid, row) ==
    BypassesPolicies(role) \/ PolicyAllows(table, cmd, uid, row)

\* the rows an update or delete with .eq("user_id", target) reaches: those the
\* caller may read and may change
Reached(rows, table, role, cmd, uid, target) ==
    {r \in rows : /\ r.user = target
                  /\ RowAllowed(table, role, "select", uid, r)
                  /\ RowAllowed(table, role, cmd, uid, r)}

\* the row a client tries to insert for user target
OfferedRow(rows, table, target) ==
    IF table = "user_entitlements"
    THEN EntRow(target, "manual_comp", "active", NullTime, "client")
    ELSE MirrorRow(NewId(rows), target, "s1", "active", NoPeriodEnd)

\* supabase.from(table).select / insert / update({status: "active"}) / delete,
\* filtered by .eq("user_id", target), run with the given role and auth.uid()
RunCommand(rows, table, role, cmd, uid, target) ==
    IF ~Granted(table, role, cmd)
    THEN [rows |-> rows, seen |-> {}, denied |-> TRUE]
    ELSE IF cmd = "select"
    THEN [rows |-> rows, denied |-> FALSE,
          seen |-> Reached(rows, table, role, "select", uid, target)]
    ELSE IF cmd = "insert"
    THEN IF RowAllowed(table, role, "insert", uid, OfferedRow(rows, table, target))
         THEN [rows |-> rows \cup {OfferedRow(rows, table, target)}, seen |-> {},
               denied |-> FALSE]
         ELSE [rows |-> rows, seen |-> {}, denied |-> TRUE]
    ELSE IF cmd = "update"
    THEN [rows |-> {IF r \in Reached(rows, table, role, cmd, uid, target)
                    THEN [r EXCEPT !.status = "active"] ELSE r : r \in rows},
          seen |-> {}, denied |-> FALSE]
    ELSE [rows |-> rows \ Reached(rows, table, role, cmd, uid, target),
          seen |-> {}, denied |-> FALSE]

\* auth.uid() of a caller: a user id for a signed-in client only
Callers(role) == IF role = "authenticated" THEN Users ELSE {NULL}

\* ------------------------------------------------- sequential specification
\* Requests are served one at a time.  Any number of them build up the stored
\* state; one request is then kept in `last` together with its response, and
\* Stripe may deliver that same event once more (`again`).
NoRequest ==
    [kind |-> "none", req |-> Request("missing", TRUE, Event(OtherEvent, NULL, NULL, NULL,
                                      NoPeriodEnd), QuietEnv),
     status |-> 0, body |-> "", handled |-> FALSE, ops |-> 0, stored |-> 0,
     changed |-> FALSE, manual |-> FALSE]

NotAgain == [kind |-> "none", changed |-> FALSE, status |-> 0, ops |-> 0, stored |-> 0]

NoAccessCheck ==
    [kind |-> "none", user |-> "u1", now |-> 0, failed |-> FALSE, result |-> FALSE,
     sql |-> FALSE]

\* ----------------------------------------------------- concurrent deliveries
Procs == {1, 2}

\* the subscription object stripe.subscriptions.retrieve hands to a checkout handler
Retrieved(st) == [status |-> st, period_end |-> NoPeriodEnd]

Job(ev, obj) ==
    [ev |-> ev, obj |-> obj, found |-> FALSE, owner |-> NULL, writes |-> 0]

\* the deliveries that may overlap: all of them concern user u1
ConcJobs ==
    {Job(Event(CheckoutCompleted, s, SubUser(s), NULL, NoPeriodEnd), Retrieved(st)) :
        s \in StripeSubs, st \in {"active", "past_due"}}
    \cup {Job(Event(SubscriptionUpdated, "s1", NULL, st, NoPeriodEnd), Retrieved(st)) :
            st \in {"active", "past_due"}}
    \cup {Job(Event(SubscriptionDeleted, "s1", NULL, "canceled", NoPeriodEnd),
              Retrieved("canceled")),
          Job(Event(InvoicePaymentFailed, "s1", NULL, NULL, NoPeriodEnd),
              Retrieved("past_due"))}

NoJob == Job(Event(OtherEvent, NULL, NULL, NULL, NoPeriodEnd), Retrieved("active"))

NoUpsert == [set |-> FALSE, replaced |-> FALSE, row |-> EntRow("u1", "stripe", "inactive",
                                                              NullTime, NULL)]

\* ---------------------------------------------------------- share link rows
Shows == {"h1", "h2"}
\* shows.user_id
ShowOwner(h) == IF h = "h1" THEN "u1" ELSE IF h = "h2" THEN "u2" ELSE NULL
\* the show ids a request can name: the stored shows and one that does not exist
ShowIds == Shows \cup {"h9"}

\* the token that no link carries
NoToken == 0

\* randomBytes(32).toString("hex"): a token no stored row carries
NewToken(rows) == Cardinality(rows) + 1

LinkRow(h, token, active) == [show |-> h, token |-> token, active |-> active]

LinksByShow(rows, h) == {l \in rows : l.show = h}

\* policy share_links_manage_own: the rows whose show belongs to auth.uid()
VisibleLinks(rows, caller) == {l \in rows : ShowOwner(l.show) = caller}

\* the ownership check of the create route without the user_id filter
OwnsShowAnyUser(caller, h) == h \in Shows

\* .eq("id", showId).eq("user_id", user.id).single() on shows
OwnsShow(caller, h) == h \in Shows /\ ShowOwner(h) = caller

\* .insert({show_id, token, is_active: true}); unique (token); the policy's
\* with check admits the row only for the show's owner
InsertLinkAccepted(caller, h, ok) == ok /\ OwnsShow(caller, h)

InsertLink(rows, caller, h, ok) ==
    IF InsertLinkAccepted(caller, h, ok)
    THEN rows \cup {LinkRow(h, NewToken(rows), TRUE)} ELSE rows

\* the rows .update({is_active: isActive}).eq("show_id", showId) matches
ToggleMatching(rows, caller, h) == LinksByShow(VisibleLinks(rows, caller), h)

\* an update that can only switch links off
ToggleLinksOffOnly(rows, caller, h, isActive, applied) ==
    IF Found(ToggleMatching(rows, caller, h)) \/ applied
    THEN {IF l \in ToggleMatching(rows, caller, h)
          THEN [l EXCEPT !.active = FALSE] ELSE l : l \in rows}
    ELSE rows

\* .update(...).select().single(): an error unless exactly one row was updated;
\* when several rows match, the statement is either rolled back with the error
\* or stays applied (applied says which)
ToggleLinks(rows, caller, h, isActive, applied) ==
    IF Found(ToggleMatching(rows, caller, h)) \/ applied
    THEN {IF l \in ToggleMatching(rows, caller, h)
          THEN [l EXCEPT !.active = isActive] ELSE l : l \in rows}
    ELSE rows

\* a request and its response; had: the links of the show when the request
\* arrived; wrote: whether the request changed a row
ShareJob(kind, caller, h, had) ==
    [kind |-> kind, caller |-> caller, show |-> h, status |-> 0, body |-> "",
     token |-> NoToken, active |-> FALSE, had |-> had, wrote |-> FALSE]

Response(j, status, body, token, active, wrote) ==
    [j EXCEPT !.status = status, !.body = body, !.token = token, !.active = active,
              !.wrote = wrote]

Refused(j, status, body) == Response(j, status, body, NoToken, FALSE, FALSE)

NoShareJob == ShareJob("none", NULL, NULL, {})

\* ------------------------------------------------------------ page requests
\* request.nextUrl.pathname, as the prefix the proxy tests and what follows it
Path(prefix, rest) == [prefix |-> prefix, rest |-> rest]

\* the tokens a page request can carry: one that no link has, and the tokens of
\* the first links issued (one for each show)
Tokens == NoToken .. Cardinality(Shows)

Paths ==
    {Path(prefix, NoToken) :
        prefix \in {"/login", "/auth/callback", "/api/webhooks/", "/dashboard"}}
    \cup {Path("/s/", token) : token \in Tokens}

\* a variant without the webhook bypass
proxyWithoutWebhookBypass(user, path) ==
    LET isLoginPage == path.prefix = "/login"
        isAuthCallback == path.prefix = "/auth/callback"
    IN  IF user # NULL /\ isLoginPage THEN "redirect:/dashboard"
        ELSE IF user = NULL /\ ~isLoginPage /\ ~isAuthCallback THEN "redirect:/login"
        ELSE "pass"

\* export async function proxy(request), proxy.ts
proxy(user, path) ==
    LET isLoginPage == path.prefix = "/login"
        isAuthCallback == path.prefix = "/auth/callback"
        isWebhook == path.prefix = "/api/webhooks/"
    IN  IF isWebhook THEN "pass"
        ELSE IF user # NULL /\ isLoginPage THEN "redirect:/dashboard"
        ELSE IF user = NULL /\ ~isLoginPage /\ ~isAuthCallback THEN "redirect:/login"
        ELSE "pass"

\* export async function proxy(request), the version with isPublicSharePage
proxyPublicShare(user, path) ==
    LET isLoginPage == path.prefix = "/login"
        isAuthCallback == path.prefix = "/auth/callback"
        isWebhook == path.prefix = "/api/webhooks/"
        isPublicSharePage == path.prefix = "/s/"
    IN  IF isWebhook THEN "pass"
        ELSE IF isPublicSharePage THEN "pass"
        ELSE IF user # NULL /\ isLoginPage THEN "redirect:/dashboard"
        ELSE IF user = NULL /\ ~isLoginPage /\ ~isAuthCallback THEN "redirect:/login"
        ELSE "pass"

\* who asks for a page: nobody signed in, or a signed-in user (the proxy tests
\* only whether there is a user, and the share page does not look at the caller)
Viewers == {NULL, "u1"}

\* the two versions of the proxy file
ProxyVersions == {"proxy.ts", "isPublicSharePage"}

RunProxy(version, user, path) ==
    IF version = "proxy.ts" THEN proxy(user, path) ELSE proxyPublicShare(user, path)

\* serviceClient.from("share_links").select(...).eq("token", token).single()
LinksByToken(rows, token) == {l \in rows : l.token = token}

\* what the share page finds: "error", "absent", "inactive" or "active"
LinkLookup(rows, token, ok) ==
    IF ~ok THEN "error"
    ELSE IF ~Found(LinksByToken(rows, token)) THEN "absent"
    ELSE IF Single(LinksByToken(rows, token)).active THEN "active"
    ELSE "inactive"

\* a variant that renders whenever a row is found
LinkUsableWhenPresent(seen) == seen \in {"active", "inactive"}

\* if (shareLinkError || !shareLink || !shareLink.is_active) notFound()
LinkUsable(seen) == seen = "active"

\* some answered toggle switched the link with this token from inactive to
\* active
Reactivated(jobs, token) ==
    \E p \in DOMAIN jobs :
        /\ jobs[p].kind = "toggle"
        /\ jobs[p].status = 200
        /\ jobs[p].active
        /\ jobs[p].token = token
        /\ \E l \in jobs[p].had : l.token = token /\ ~l.active

\* hit: the rows carrying the requested token when the page looked; failed:
\* whether a query of the page returned an error; reactivated: whether the
\* link had been switched back to active when the page looked
NoView ==
    [pc |-> "idle", caller |-> NULL, path |-> Path("/login", NoToken),
     hit |-> {}, failed |-> FALSE,
     show |-> NULL, result |-> "none", reactivated |-> FALSE, version |-> "proxy.ts"]

Init ==
    /\ subs = {}
    /\ ents = {}
    /\ last = NoRequest
    /\ again = NotAgain
    /\ access = NoAccessCheck
    /\ pc = [p \in Procs |-> "idle"]
    /\ job = [p \in Procs |-> NoJob]
    /\ base = [subs |-> {}, ents |-> {}]
    /\ clean = TRUE
    /\ upserted = NoUpsert
    /\ nSetup = 0
    /\ links = {}
    /\ spc = [p \in Procs |-> "idle"]
    /\ sjob = [p \in Procs |-> NoShareJob]
    /\ nShare = 0
    /\ view = NoView
    /\ formData = EmptyForm
    /\ result = NoResult
    /\ errorMessage = ""
    /\ fresh = FALSE
    /\ twice = FALSE
    /\ showName = ""
    /\ currentShowId = NoShowId
    /\ saveStatus = "idle"
    /\ saveMessage = ""
    /\ shows = <<>>
    /\ timers = 0
    /\ flight = {}
    /\ nSaves = 0

\* the sources of the entitlements granted by hand
ManualSources == {"manual_comp", "dev_account", "test_account"}

\* the users an event is about: the one named in the checkout session's
\* metadata, or the owner of the subscription's mirror row
EventUsers(ev, S) ==
    IF ev.type = CheckoutCompleted THEN {ev.user} \ {NULL}
    ELSE {r.user : r \in SubsBySubId(S, ev.sub)}

HoldsManual(E, u) == \E r \in EntsByUser(E, u) : r.source \in ManualSources

Serve(req, keep) ==
    LET r == POST(req, subs, ents) IN
    /\ last.kind = "none"
    /\ subs' = r.subs
    /\ ents' = r.ents
    /\ last' = IF keep
               THEN [kind |-> "webhook", req |-> req, status |-> r.status,
                     body |-> r.body, handled |-> r.handled, ops |-> r.ops,
                     stored |-> r.stored,
                     changed |-> (r.subs # subs \/ r.ents # ents),
                     manual |-> \E u \in EventUsers(req.ev, subs) :
                                    HoldsManual(ents, u)]
               ELSE last
    /\ UNCHANGED <<again, access, concVars, shareVars, calcVars, saveVars>>

\* a delivery signed by Stripe
Deliver ==
    \E ev \in Events : \E env \in EnvsFor(ev) : \E keep \in BOOLEAN :
        Serve(Request("valid", TRUE, ev, env), keep)

\* a request without a signature, with a forged one, or while the secret is unset
Reject ==
    \E ev \in ForgedEvents : \E sig \in Signatures : \E secret \in BOOLEAN :
        /\ sig # "valid" \/ ~secret
        /\ Serve(Request(sig, secret, ev, QuietEnv), TRUE)

\* Stripe delivers the kept event again, right after the first delivery; the
\* subscription object it holds has not changed in between
Redeliver ==
    \E okm \in BOOLEAN : \E oke \in BOOLEAN :
        LET req == [last.req EXCEPT !.env.okMirror = okm, !.env.okEnt = oke]
            r == POST(req, subs, ents)
        IN  /\ last.kind = "webhook"
            /\ last.req.sig = "valid"
            /\ last.req.secretSet
            /\ again.kind = "none"
            /\ subs' = r.subs
            /\ ents' = r.ents
            /\ again' = [kind |-> "redelivered",
                         changed |-> (r.subs # subs \/ r.ents # ents),
                         status |-> r.status, ops |-> r.ops, stored |-> r.stored]
            /\ UNCHANGED <<last, access, concVars, shareVars, calcVars, saveVars>>

AdminGrant ==
    \E row \in GrantOptions :
        /\ last.kind = "none"
        /\ ents' = UpsertEnt(ents, row, TRUE)
        /\ UNCHANGED <<subs, seqVars, concVars, shareVars, calcVars, saveVars>>

AdminRevoke ==
    \E u \in Users :
        /\ last.kind = "none"
        /\ ents' = RevokeEnt(ents, u)
        /\ UNCHANGED <<subs, seqVars, concVars, shareVars, calcVars, saveVars>>

\* a page asks whether the signed-in user has access
CheckAccess ==
    \E u \in Users : \E now \in Nows : \E lookupOk \in BOOLEAN :
        /\ last.kind = "none"
        /\ access' = [kind |-> "checked", user |-> u, now |-> now, failed |-> ~lookupOk,
                      result |-> hasProAccess(ents, u, now, lookupOk),
                      sql |-> has_active_entitlement(ents, u, now)]
        /\ last' = [NoRequest EXCEPT !.kind = "access"]
        /\ UNCHANGED <<subs, ents, again, concVars, shareVars, calcVars, saveVars>>

Next == Deliver \/ Reject \/ Redeliver \/ AdminGrant \/ AdminRevoke \/ CheckAccess

Spec == Init /\ [][Next]_vars

\* ------------------------------------------------ direct table requests
\* Deliveries and manual grants build up the tables; then one request is sent
\* straight to a table through the data API and kept in `access`.
Build ==
    \E ev \in Events : \E env \in EnvsFor(ev) :
        Serve(Request("valid", TRUE, ev, env), FALSE)

TableRequest ==
    \E table \in Tables : \E role \in Roles : \E cmd \in Commands :
    \E uid \in Callers(role) : \E target \in Users :
        LET rows == IF table = "user_entitlements" THEN ents ELSE subs
            out == RunCommand(rows, table, role, cmd, uid, target)
        IN  /\ last.kind = "none"
            /\ ents' = IF table = "user_entitlements" THEN out.rows ELSE ents
            /\ subs' = IF table = "user_subscriptions" THEN out.rows ELSE subs
            /\ access' = [kind |-> "client", table |-> table, role |-> role,
                          cmd |-> cmd, uid |-> uid, target |-> target,
                          seen |-> out.seen, denied |-> out.denied,
                          changed |-> out.rows # rows]
            /\ last' = [NoRequest EXCEPT !.kind = "client"]
            /\ UNCHANGED <<again, concVars, shareVars, calcVars, saveVars>>

\* a page asks for the access and the entitlement details of a user and for the
\* access of the signed-in user; each is a query of its own that may fail
CheckDetails ==
    \E u \in Users : \E signedIn \in Users \cup {NULL} : \E now \in Nows :
    \E okAccess \in BOOLEAN : \E okDetails \in BOOLEAN : \E okClient \in BOOLEAN :
        /\ last.kind = "none"
        /\ access' = [kind |-> "details", user |-> u, signedIn |-> signedIn,
                      now |-> now,
                      failed |-> ~okAccess, detailsFailed |-> ~okDetails,
                      clientFailed |-> ~okClient,
                      result |-> hasProAccess(ents, u, now, okAccess),
                      details |-> getEntitlementDetails(ents, u, now, okDetails),
                      client |-> hasProAccessClient(ents, signedIn, now, okClient)]
        /\ last' = [NoRequest EXCEPT !.kind = "access"]
        /\ UNCHANGED <<subs, ents, again, concVars, shareVars, calcVars, saveVars>>

NextClient == Build \/ AdminGrant \/ AdminRevoke \/ TableRequest \/ CheckDetails

SpecClient == Init /\ [][NextClient]_vars

\* ------------------------------------------------- concurrent specification
\* Two deliveries run at the same time, each handler advancing from one await
\* to the next; before they start, up to MaxSetup deliveries or manual grants
\* are served one at a time, and a manual grant may also fall in between.
Idle == \A p \in Procs : pc[p] = "idle"

ConcSetup ==
    \E j \in ConcJobs :
        LET out == Dispatch(j.ev, Env(TRUE, j.obj.status, j.obj.period_end, TRUE, TRUE),
                            subs, ents)
        IN  /\ Idle
            /\ nSetup < MaxSetup
            /\ subs' = out.subs
            /\ ents' = out.ents
            /\ nSetup' = nSetup + 1
            /\ upserted' = NoUpsert
            /\ UNCHANGED <<pc, job, base, clean, seqVars, shareVars, calcVars, saveVars>>

Upserted(row) ==
    [set |-> TRUE, row |-> row,
     replaced |-> (EntsByUser(ents, row.user) # {} /\ EntsByUser(ents, row.user) # {row})]

ConcGrant ==
    \E row \in GrantOptions :
        /\ nSetup < MaxSetup
        /\ ents' = UpsertEnt(ents, row, TRUE)
        /\ upserted' = Upserted(row)
        /\ clean' = Idle
        /\ nSetup' = nSetup + 1
        /\ UNCHANGED <<subs, pc, job, base, seqVars, shareVars, calcVars, saveVars>>

Launch ==
    \E j1 \in ConcJobs : \E j2 \in ConcJobs :
        /\ Idle
        /\ job' = [p \in Procs |-> IF p = 1 THEN j1 ELSE j2]
        /\ pc' = [p \in Procs |-> "checkExisting"]
        /\ base' = [subs |-> subs, ents |-> ents]
        /\ UNCHANGED <<subs, ents, clean, upserted, nSetup, seqVars, shareVars, calcVars, saveVars>>

\* .from("user_subscriptions").select(...).eq("stripe_subscription_id", ...).single()
CheckExisting(p) ==
    LET ev == job[p].ev
        existing == SubsBySubId(subs, ev.sub)
    IN  /\ pc[p] = "checkExisting"
        /\ IF ev.type = CheckoutCompleted
           THEN /\ pc' = [pc EXCEPT ![p] = IF Found(existing) THEN "done" ELSE "checkUser"]
                /\ job' = job
           ELSE IF ~Found(existing)
           THEN pc' = [pc EXCEPT ![p] = "done"] /\ job' = job
           ELSE IF /\ ev.type \in {SubscriptionDeleted, InvoicePaymentFailed}
                   /\ AlreadyMarked(existing, TargetStatus(ev.type))
           THEN pc' = [pc EXCEPT ![p] = "done"] /\ job' = job
           ELSE /\ pc' = [pc EXCEPT ![p] = "writeMirror"]
                /\ job' = [job EXCEPT ![p].owner = Single(existing).user]
        /\ UNCHANGED <<subs, ents, base, clean, upserted, nSetup, seqVars, shareVars, calcVars, saveVars>>

\* .from("user_subscriptions").select("id").eq("user_id", userId).single()
CheckUser(p) ==
    /\ pc[p] = "checkUser"
    /\ job' = [job EXCEPT ![p].found = Found(SubsByUser(subs, job[p].ev.user))]
    /\ pc' = [pc EXCEPT ![p] = "writeMirror"]
    /\ UNCHANGED <<subs, ents, base, clean, upserted, nSetup, seqVars, shareVars, calcVars, saveVars>>

WriteMirror(p) ==
    \E ok \in BOOLEAN :
        LET ev == job[p].ev IN
        /\ pc[p] = "writeMirror"
        /\ subs' = CASE ev.type = CheckoutCompleted ->
                          CheckoutWriteMirror(ev, job[p].obj, job[p].found, subs, ok)
                     [] ev.type = SubscriptionUpdated -> UpdatedWriteMirror(ev, subs, ok)
                     [] OTHER -> MarkWriteMirror(ev.sub, TargetStatus(ev.type), subs, ok)
        /\ job' = [job EXCEPT ![p].writes = @ + 1]
        /\ pc' = [pc EXCEPT ![p] = "writeEnt"]
        /\ UNCHANGED <<ents, base, clean, upserted, nSetup, seqVars, shareVars, calcVars, saveVars>>

WriteEnt(p) ==
    \E ok \in BOOLEAN :
        LET ev == job[p].ev
            row == IF ev.type = CheckoutCompleted
                   THEN StripeEnt(ev.user, ev.sub, job[p].obj.status, job[p].obj.period_end)
                   ELSE StripeEnt(job[p].owner, ev.sub, ev.status, ev.period_end)
        IN  /\ pc[p] = "writeEnt"
            /\ ents' = CASE ev.type = CheckoutCompleted ->
                              CheckoutWriteEnt(ev, job[p].obj, ents, ok)
                         [] ev.type = SubscriptionUpdated ->
                              UpdatedWriteEnt(ev, job[p].owner, ents, ok)
                         [] OTHER -> DeactivateStripeEnt(ents, job[p].owner, ok)
            /\ upserted' = IF ~ok THEN upserted
                           ELSE IF ev.type \in {CheckoutCompleted, SubscriptionUpdated}
                           THEN Upserted(row)
                           ELSE NoUpsert
            /\ job' = [job EXCEPT ![p].writes = @ + 1]
            /\ pc' = [pc EXCEPT ![p] = "done"]
            /\ UNCHANGED <<subs, base, clean, nSetup, seqVars, shareVars, calcVars, saveVars>>

NextConc ==
    \/ ConcSetup
    \/ ConcGrant
    \/ Launch
    \/ \E p \in Procs : CheckExisting(p)
    \/ \E p \in Procs : CheckUser(p)
    \/ \E p \in Procs : WriteMirror(p)
    \/ \E p \in Procs : WriteEnt(p)

SpecConc == Init /\ [][NextConc]_vars

\* ------------------------------------------------- share link specification
\* Up to two share link requests run at the same time, each create request
\* advancing from one await to the next.  A behaviour follows the requests up
\* to the answer of the one page request it looks at.
Free(p) == spc[p] \in {"idle", "done"} /\ view.pc # "done"

\* whether a toggle that matches several rows stays applied
ToggleOutcomes(matching) == IF Cardinality(matching) > 1 THEN BOOLEAN ELSE {TRUE}

Respond(p, response) ==
    /\ sjob' = [sjob EXCEPT ![p] = response]
    /\ spc' = [spc EXCEPT ![p] = "done"]

\* POST /api/share-links/create, up to the first query
CreateStart(p) ==
    \E caller \in Users \cup {NULL} : \E h \in ShowIds \cup {NULL} :
        LET j == ShareJob("create", caller, h, LinksByShow(links, h)) IN
        /\ Free(p)
        /\ nShare < MaxShareRequests
        /\ nShare' = nShare + 1
        /\ IF caller = NULL THEN Respond(p, Refused(j, 401, "Authentication required"))
           ELSE IF h = NULL THEN Respond(p, Refused(j, 400, "showId is required"))
           ELSE sjob' = [sjob EXCEPT ![p] = j] /\ spc' = [spc EXCEPT ![p] = "checkShow"]
        /\ UNCHANGED <<subs, ents, links, view, seqVars, concVars, calcVars, saveVars>>

\* .from("shows").select("id").eq("id", showId).eq("user_id", user.id).single()
CreateCheckShow(p) ==
    /\ spc[p] = "checkShow"
    /\ IF OwnsShow(sjob[p].caller, sjob[p].show)
       THEN spc' = [spc EXCEPT ![p] = "checkLink"] /\ sjob' = sjob
       ELSE Respond(p, Refused(sjob[p], 404, "Show not found or access denied"))
    /\ UNCHANGED <<subs, ents, links, nShare, view, seqVars, concVars, calcVars, saveVars>>

\* .from("share_links").select("token, is_active").eq("show_id", showId).single()
CreateCheckLink(p) ==
    LET existing == LinksByShow(VisibleLinks(links, sjob[p].caller), sjob[p].show) IN
    /\ spc[p] = "checkLink"
    /\ IF Found(existing)
       THEN Respond(p, Response(sjob[p], 200, "already_exists", Single(existing).token,
                                Single(existing).active, FALSE))
       ELSE spc' = [spc EXCEPT ![p] = "insert"] /\ sjob' = sjob
    /\ UNCHANGED <<subs, ents, links, nShare, view, seqVars, concVars, calcVars, saveVars>>

CreateInsert(p) ==
    \E ok \in BOOLEAN :
        /\ spc[p] = "insert"
        /\ links' = InsertLink(links, sjob[p].caller, sjob[p].show, ok)
        /\ IF InsertLinkAccepted(sjob[p].caller, sjob[p].show, ok)
           THEN Respond(p, Response(sjob[p], 201, "created", NewToken(links), TRUE, TRUE))
           ELSE Respond(p, Refused(sjob[p], 500, "Failed to create share link"))
        /\ UNCHANGED <<subs, ents, nShare, view, seqVars, concVars, calcVars, saveVars>>

\* POST /api/share-links/toggle
Toggle(p) ==
    \E caller \in Users \cup {NULL} : \E h \in ShowIds : \E isActive \in BOOLEAN :
    \E applied \in ToggleOutcomes(ToggleMatching(links, caller, h)) :
        LET matching == ToggleMatching(links, caller, h)
            j == ShareJob("toggle", caller, h, LinksByShow(links, h))
            after == ToggleLinks(links, caller, h, isActive, applied)
        IN  /\ Free(p)
            /\ nShare < MaxShareRequests
            /\ nShare' = nShare + 1
            /\ IF caller = NULL
               THEN /\ links' = links
                    /\ Respond(p, Refused(j, 401, "Authentication required"))
               ELSE /\ links' = after
                    /\ IF Found(matching)
                       THEN Respond(p, Response(j, 200, "updated", Single(matching).token,
                                                isActive, after # links))
                       ELSE Respond(p, Response(j, 404,
                                "Failed to update share link or share link not found",
                                NoToken, FALSE, after # links))
            /\ UNCHANGED <<subs, ents, view, seqVars, concVars, calcVars, saveVars>>

\* a browser asks for a path, at any moment of the share link traffic (one page
\* request is followed per behaviour): the proxy runs first
ViewStart ==
    \E caller \in Viewers : \E path \in Paths : \E version \in ProxyVersions :
        LET answer == RunProxy(version, caller, path) IN
        /\ view.pc = "idle"
        /\ view' = [pc |-> IF answer = "pass" /\ path.prefix = "/s/" THEN "lookupLink"
                           ELSE "done",
                    caller |-> caller, path |-> path,
                    hit |-> {}, failed |-> FALSE, show |-> NULL, result |-> answer,
                    reactivated |-> FALSE, version |-> version]
        /\ UNCHANGED <<subs, ents, links, spc, sjob, nShare, seqVars, concVars, calcVars, saveVars>>

\* SharedSettlementPage: the share link lookup
ViewLookupLink ==
    \E ok \in BOOLEAN :
        LET hit == LinksByToken(links, view.path.rest)
            back == Reactivated(sjob, view.path.rest)
        IN
        /\ view.pc = "lookupLink"
        /\ view' = IF LinkUsable(LinkLookup(links, view.path.rest, ok))
                   THEN [view EXCEPT !.pc = "lookupShow", !.hit = hit, !.failed = ~ok,
                                     !.show = Single(hit).show, !.reactivated = back]
                   ELSE [view EXCEPT !.pc = "done", !.hit = hit, !.failed = ~ok,
                                     !.result = "notFound", !.reactivated = back]
        /\ UNCHANGED <<subs, ents, links, spc, sjob, nShare, seqVars, concVars, calcVars, saveVars>>

\* SharedSettlementPage: the show lookup and the rendering
ViewLookupShow ==
    \E ok \in BOOLEAN :
        /\ view.pc = "lookupShow"
        /\ view' = [view EXCEPT !.pc = "done", !.failed = ~ok,
                                !.result = IF ok /\ view.show \in Shows THEN "page"
                                           ELSE "notFound"]
        /\ UNCHANGED <<subs, ents, links, spc, sjob, nShare, seqVars, concVars, calcVars, saveVars>>

NextShare ==
    \/ ViewStart
    \/ ViewLookupLink
    \/ ViewLookupShow
    \/ \E p \in Procs : CreateStart(p)
    \/ \E p \in Procs : CreateCheckShow(p)
    \/ \E p \in Procs : CreateCheckLink(p)
    \/ \E p \in Procs : CreateInsert(p)
    \/ \E p \in Procs : Toggle(p)

SpecShare == Init /\ [][NextShare]_vars

\* the result and the message on screen
Shown(res, message) == [result |-> res, errorMessage |-> message]

\* a variant that keeps a result already on screen
CalculateKeepingEarlier(f, earlier) ==
    IF earlier.result # NoResult THEN earlier
    ELSE IF Validate(f) # "" THEN Shown(NoResult, Validate(f))
    ELSE Shown(Settle(f), "")

\* handleCalculate as a function of the form and of what was on screen before
Calculate(f, earlier) ==
    IF Validate(f) # ""
    THEN Shown(NoResult, Validate(f))
    ELSE Shown(Settle(f), "")

\* ------------------------------------------------ calculator specification
\* function handleInputChange(e)
handleInputChange ==
    \E name \in FieldNames : \E value \in FieldTexts(name) :
        /\ formData' = [formData EXCEPT ![name] = value]
        /\ errorMessage' = ""
        /\ fresh' = FALSE
        /\ twice' = FALSE
        /\ UNCHANGED <<subs, ents, result, seqVars, concVars, shareVars, saveVars>>

\* function handleCalculate()
handleCalculate ==
    /\ result' = Calculate(formData, Shown(result, errorMessage)).result
    /\ errorMessage' = Calculate(formData, Shown(result, errorMessage)).errorMessage
    /\ fresh' = TRUE
    /\ twice' = fresh
    /\ UNCHANGED <<subs, ents, formData, seqVars, concVars, shareVars, saveVars>>

NextCalc == handleInputChange \/ handleCalculate

SpecCalc == Init /\ [][NextCalc]_vars

\* ------------------------------------------------------------ saving a show
\* the signed-in user of the calculator session
SessionUser == "u1"

\* what is typed into the form in a session that saves its show
SavedFieldNames == {"ticketPrice", "ticketsSold", "guarantee"}

SavedFieldTexts(name) ==
    IF name = "ticketPrice" THEN {Typed(10, 1)}
    ELSE IF name = "ticketsSold" THEN {Typed(3, 1), Typed(20, 1)}
    ELSE {Typed(50, 1)}

ShowNames == {"", "Gig "}

\* String.prototype.trim() on the show names typed
Trim(text) == IF text = "Gig " THEN "Gig" ELSE text

\* handleInputChange on one of the numeric fields
TypeField ==
    \E name \in SavedFieldNames : \E value \in SavedFieldTexts(name) :
        /\ formData' = [formData EXCEPT ![name] = value]
        /\ errorMessage' = ""
        /\ fresh' = FALSE
        /\ twice' = FALSE
        /\ UNCHANGED <<subs, ents, result, seqVars, concVars, shareVars, saveVars>>

\* handleInputChange on the show name field
TypeShowName ==
    \E value \in ShowNames \ {showName} :
        /\ showName' = value
        /\ errorMessage' = ""
        /\ fresh' = FALSE
        /\ twice' = FALSE
        /\ UNCHANGED <<subs, ents, formData, result, seqVars, concVars, shareVars,
                       currentShowId, saveStatus, saveMessage, shows, timers,
                       flight, nSaves>>

\* const showData = {...}
ShowData(form, name, res) ==
    [user_id |-> SessionUser, title |-> Trim(name), inputs |-> form, results |-> res]

\* disabled={!result || saveStatus === 'saving'}
SaveDisabled == result = NoResult \/ saveStatus = "saving"

\* setSaveStatus('error'); setSaveMessage(...); setTimeout(..., 4000); return
RefuseSave(message) ==
    /\ saveStatus' = "error"
    /\ saveMessage' = message
    /\ timers' = timers + 1
    /\ UNCHANGED <<currentShowId, shows, flight>>

\* async function handleSaveShow(), up to its await: the click on the button,
\* which is rendered for a signed-in user only (the !user return is not taken)
handleSaveShow ==
    /\ ~SaveDisabled
    /\ nSaves < MaxSaves
    /\ nSaves' = nSaves + 1
    /\ IF Trim(showName) = ""
         THEN RefuseSave("Please enter a show name before saving.")
       ELSE IF result = NoResult
         THEN RefuseSave("Please calculate the settlement before saving.")
       ELSE /\ saveStatus' = "saving"
            /\ saveMessage' = ""
            /\ flight' = flight \cup
                  {[n |-> nSaves,
                    kind |-> IF currentShowId # NoShowId THEN "update" ELSE "insert",
                    id |-> currentShowId,
                    data |-> ShowData(formData, showName, result)]}
            /\ UNCHANGED <<currentShowId, shows, timers>>
    /\ UNCHANGED <<subs, ents, seqVars, concVars, shareVars, calcVars, showName>>

\* .update(showData).eq('id', currentShowId).eq('user_id', user.id)
UpdateMatching(rows, id, user) ==
    {i \in DOMAIN rows : i = id /\ rows[i].user_id = user}

UpdateShow(rows, id, user, data) ==
    [i \in DOMAIN rows |-> IF i \in UpdateMatching(rows, id, user) THEN data ELSE rows[i]]

\* handleSaveShow after its await: the request resolves, with an error or not
SaveResolves ==
    \E req \in flight : \E ok \in BOOLEAN :
        /\ flight' = flight \ {req}
        /\ timers' = timers + 1
        /\ IF ~ok \/ (req.kind = "update"
                       /\ UpdateMatching(shows, req.id, SessionUser) = {})
             THEN /\ saveStatus' = "error"
                  /\ saveMessage' = "Failed to save show. Please try again."
                  /\ UNCHANGED <<shows, currentShowId>>
           ELSE IF req.kind = "update"
             THEN /\ shows' = UpdateShow(shows, req.id, SessionUser, req.data)
                  /\ saveStatus' = "success"
                  /\ saveMessage' = "Show updated successfully!"
                  /\ UNCHANGED currentShowId
           ELSE /\ shows' = Append(shows, req.data)
                /\ currentShowId' = Len(shows) + 1
                /\ saveStatus' = "success"
                /\ saveMessage' = "Show saved successfully!"
        /\ UNCHANGED <<subs, ents, seqVars, concVars, shareVars, calcVars, showName,
                       nSaves>>

\* setTimeout(() => { setSaveMessage(''); setSaveStatus('idle') }, 4000)
TimerFires ==
    /\ timers > 0
    /\ timers' = timers - 1
    /\ saveMessage' = ""
    /\ saveStatus' = "idle"
    /\ UNCHANGED <<subs, ents, seqVars, concVars, shareVars, calcVars, showName,
                   currentShowId, shows, flight, nSaves>>

NextSave ==
    \/ TypeField
    \/ TypeShowName
    \/ handleCalculate
    \/ handleSaveShow
    \/ SaveResolves
    \/ TimerFires

SpecSave == Init /\ [][NextSave]_vars

\* =================================================================== claims
Delivered(type) ==
    /\ last.kind = "webhook"
    /\ again.kind = "none"
    /\ last.req.sig = "valid"
    /\ last.req.secretSet
    /\ last.req.ev.type = type

C2_UnverifiedRequestIsRejected ==
    (last.kind = "webhook" /\ last.req.sig # "valid") =>
        /\ last.status \in {400, 500}
        /\ ~last.handled
        /\ last.ops = 0
        /\ last.stored = 0
        /\ ~last.changed

C2_Witness ==
    /\ last.kind = "webhook"
    /\ last.req.sig = "invalid"
    /\ last.req.secretSet
    /\ last.req.ev.type = SubscriptionDeleted
    /\ last.status = 400
    /\ \E r \in SubsBySubId(subs, last.req.ev.sub) : r.status = "active"

\* ---------------------------------------------------------------------- C3
\* C3 as stated: once the signature is verified the route answers
\* {received: true}, whatever happens inside the handler.
C3_AlwaysAcknowledged ==
    (last.kind = "webhook" /\ last.req.sig = "valid" /\ last.req.secretSet) =>
        (last.status = 200 /\ last.body = "received")

RetrieveFailed ==
    /\ last.req.ev.type = CheckoutCompleted
    /\ last.req.ev.sub # NULL
    /\ ~last.req.env.retrieveOk

\* C3, amended: once the signature is verified the route answers
\* {received: true} whenever the handler returns, and a datastore write failure
\* never keeps it from returning; when the handler throws, as the checkout
\* handler does when stripe.subscriptions.retrieve fails, the route answers
\* 500 "Webhook processing failed".
C3_AcknowledgedUnlessHandlerThrows ==
    (last.kind = "webhook" /\ last.req.sig = "valid" /\ last.req.secretSet) =>
        IF RetrieveFailed
        THEN last.status = 500 /\ last.body = "Webhook processing failed"
        ELSE last.status = 200 /\ last.body = "received"

C3_Witness ==
    /\ Delivered(SubscriptionDeleted)
    /\ last.ops = 3
    /\ ~last.req.env.okMirror
    /\ ~last.req.env.okEnt
    /\ last.status = 200

DeletedApplied == Delivered(SubscriptionDeleted) /\ last.ops = 3

CheckoutApplied == Delivered(CheckoutCompleted) /\ last.ops = 4
UpdatedApplied == Delivered(SubscriptionUpdated) /\ last.ops = 3
SyncedStatus == IF CheckoutApplied THEN last.req.env.status ELSE last.req.ev.status
SyncedPeriodEnd ==
    IF CheckoutApplied THEN last.req.env.period_end ELSE last.req.ev.period_end
SyncedUsers ==
    IF CheckoutApplied THEN {last.req.ev.user}
    ELSE {r.user : r \in SubsBySubId(subs, last.req.ev.sub)}

Derived(e) ==
    /\ e.source = "stripe"
    /\ e.status = (IF SyncedStatus \in {"active", "trialing"} THEN "active" ELSE "inactive")
    /\ e.expires_at = (IF SyncedPeriodEnd = NoPeriodEnd THEN NullTime
                       ELSE SyncedPeriodEnd * 1000)

SameEventTwice ==
    /\ \A p \in Procs : pc[p] = "done"
    /\ clean
    /\ job[1].ev = job[2].ev
    /\ job[1].obj = job[2].obj

\* the tables a single processing of the event leaves, for every way its two
\* writes can succeed or fail
SingleProcessing ==
    {Dispatch(job[1].ev,
              Env(TRUE, job[1].obj.status, job[1].obj.period_end, okm, oke),
              base.subs, base.ents) : okm \in BOOLEAN, oke \in BOOLEAN}

\* C7: when the same event is delivered twice concurrently, under every
\* interleaving of the two handlers' reads and writes the final subscription
\* and entitlement rows are those a single processing of that event leaves.
C7_ConcurrentRedeliveryConverges ==
    SameEventTwice =>
        \E out \in SingleProcessing : subs = out.subs /\ ents = out.ents

C7_Witness ==
    /\ SameEventTwice
    /\ job[1].ev.type = CheckoutCompleted
    /\ job[1].writes = 2
    /\ job[2].writes = 2
    /\ base.subs = {}
    /\ Cardinality(subs) = 1
    /\ Cardinality(ents) = 1

\* ---------------------------------------------------------------------- C8
\* C8: in every reachable state a show has at most one share link, also when
\* two create requests for the same show run concurrently.
C8_OneShareLinkPerShow ==
    \A h \in Shows : Cardinality(LinksByShow(links, h)) <= 1

\* ---------------------------------------------------------------------- C9
\* C9: in every reachable state a user has at most one subscription mirror
\* row, also when two checkout completions for the same user with different
\* subscription ids are processed concurrently.
C9_OneMirrorRowPerUser ==
    \A u \in Users : Cardinality(SubsByUser(subs, u)) <= 1

\* --------------------------------------------------------------------- C10
\* C10: in every reachable state a user has at most one entitlement row, under
\* any interleaving of webhook handlers and manual grants, and an upsert
\* replaces the values of the user's earlier row rather than adding a row.
C10_OneEntitlementPerUser ==
    /\ \A u \in Users : Cardinality(EntsByUser(ents, u)) <= 1
    /\ upserted.set => EntsByUser(ents, upserted.row.user) = {upserted.row}

C10_Witness ==
    /\ upserted.set
    /\ upserted.replaced
    /\ upserted.row.source = "manual_comp"
    /\ ~clean
    /\ \E p \in Procs : pc[p] = "done" /\ job[p].writes = 2
    /\ \E p \in Procs : pc[p] = "writeEnt"

\* --------------------------------------------------------------------- C11
\* the share page has answered a request that reached it
PageAnswered == view.pc = "done" /\ view.path.prefix = "/s/" /\ view.result # "redirect:/login"

\* C11: the share page renders a show only if, when it looked, a share_links
\* row carried exactly the requested token, was active and belonged to that
\* show; for a token no row carried and for a token whose row was inactive the
\* answer is the same not-found result.
C11_RendersOnlyActiveLinks ==
    PageAnswered =>
        /\ view.result \in {"page", "notFound"}
        /\ view.result = "page" =>
              \E l \in view.hit :
                  l.token = view.path.rest /\ l.active /\ l.show = view.show
        /\ (view.hit = {} \/ \E l \in view.hit : ~l.active) => view.result = "notFound"

C11_Witness ==
    /\ PageAnswered
    /\ ~view.failed
    /\ view.result = "notFound"
    /\ \E l \in view.hit : ~l.active /\ l.token = view.path.rest

\* --------------------------------------------------------------------- C12
\* C12: a request for a path under /s/ by a caller without a session is passed
\* through by the proxy and not redirected to /login.
C12_AnonymousShareRequestPasses ==
    (view.pc # "idle" /\ view.caller = NULL /\ view.path.prefix = "/s/") =>
        view.result # "redirect:/login"

\* --------------------------------------------------------------------- C13
\* a create request by the show's owner has been answered
CreateAnswered(p) ==
    /\ spc[p] = "done"
    /\ sjob[p].kind = "create"
    /\ OwnsShow(sjob[p].caller, sjob[p].show)

\* C13: a link that existed when a create or toggle request arrived still
\* carries the same token for the same show afterwards; and a create request
\* for a show that already had a link answers with an existing token of that
\* show and writes nothing.
C13_TokenNeverRegenerated ==
    \A p \in Procs :
        /\ \A l \in sjob[p].had :
              \E k \in links : k.token = l.token /\ k.show = l.show
        /\ (CreateAnswered(p) /\ sjob[p].had # {}) =>
              /\ sjob[p].status = 200
              /\ \E l \in sjob[p].had : l.token = sjob[p].token
              /\ ~sjob[p].wrote

\* --------------------------------------------------------------------- C14
\* a create request by an authenticated caller for a show that is not theirs
\* (another user's show, or no show at all) has been answered
CreateByStranger(p) ==
    /\ spc[p] = "done"
    /\ sjob[p].kind = "create"
    /\ sjob[p].caller # NULL
    /\ sjob[p].show # NULL
    /\ ShowOwner(sjob[p].show) # sjob[p].caller

\* the answer of a request as the client sees it
Seen(j) == <<j.status, j.body, j.token, j.active>>

\* C14: only the owner of a show can create a link for it; a create request
\* by an authenticated non-owner is answered 404 "Show not found or access
\* denied", the same answer as for a show that does not exist, and inserts
\* no row.
C14_CreateIsOwnerOnly ==
    /\ \A p \in Procs :
          CreateByStranger(p) =>
              /\ sjob[p].status = 404
              /\ sjob[p].body = "Show not found or access denied"
              /\ sjob[p].token = NoToken
              /\ ~sjob[p].wrote
    /\ \A p \in Procs :
          sjob[p].wrote /\ sjob[p].kind = "create" =>
              OwnsShow(sjob[p].caller, sjob[p].show)
    /\ \A p, q \in Procs :
          CreateByStranger(p) /\ CreateByStranger(q) =>
              Seen(sjob[p]) = Seen(sjob[q])

\* one stranger asked for another user's show and one for a missing show
C14_Witness ==
    \E p, q \in Procs :
        /\ CreateByStranger(p) /\ sjob[p].show \in Shows
        /\ CreateByStranger(q) /\ sjob[q].show \notin Shows
        /\ sjob[p].had # {}
        /\ sjob[p].status = 404

\* --------------------------------------------------------------------- C15
\* a toggle request by an authenticated caller has been answered
ToggleAnswered(p) ==
    /\ spc[p] = "done"
    /\ sjob[p].kind = "toggle"
    /\ sjob[p].caller # NULL

\* C15: a toggle by the show's owner on a show that has a share link answers
\* with that link's token and the requested flag; a toggle on a show without
\* a link, or by a caller who does not own the show, answers with an error
\* status and changes no row.
C15_ToggleContract ==
    \A p \in Procs :
        ToggleAnswered(p) =>
            IF OwnsShow(sjob[p].caller, sjob[p].show) /\ sjob[p].had # {}
            THEN /\ sjob[p].status = 200
                 /\ \E l \in sjob[p].had : l.token = sjob[p].token
            ELSE /\ sjob[p].status >= 400
                 /\ ~sjob[p].wrote

\* the same contract for shows that hold exactly one link
ToggleContractOneLink ==
    \A p \in Procs :
        (ToggleAnswered(p) /\ Cardinality(sjob[p].had) <= 1) =>
            IF OwnsShow(sjob[p].caller, sjob[p].show) /\ sjob[p].had # {}
            THEN /\ sjob[p].status = 200
                 /\ \E l \in sjob[p].had : l.token = sjob[p].token
            ELSE /\ sjob[p].status >= 400
                 /\ ~sjob[p].wrote

\* --------------------------------------------------------------------- C16
\* the step is an answered toggle of connection p that reported success
ToggleSucceeds(p) ==
    /\ sjob'[p] # sjob[p]
    /\ sjob'[p].kind = "toggle"
    /\ sjob'[p].status = 200

\* a successful toggle leaves the link with the requested flag, and with the
\* token and the show it had
ToggleTakesEffect ==
    \A p \in Procs :
        ToggleSucceeds(p) =>
            \E l \in links :
                /\ l.token = sjob'[p].token
                /\ [l EXCEPT !.active = sjob'[p].active] \in links'

\* between toggles a link keeps its flag: a row changes only in a step that
\* answers a toggle, and keeps its token and show
OnlyTogglesSwitch ==
    \A l \in links :
        l \notin links' =>
            /\ [l EXCEPT !.active = ~l.active] \in links'
            /\ nShare' # nShare
            /\ \E p \in Procs :
                  /\ spc'[p] = "done"
                  /\ sjob'[p].kind = "toggle"
                  /\ sjob'[p].wrote
                  /\ sjob'[p].show = l.show

\* a page request whose queries succeeded resolves the token exactly when its
\* link is active, and to the show the link was issued for
ResolvesByFlag ==
    (PageAnswered /\ ~view.failed) =>
        /\ view.result = "page" <=> \E l \in view.hit : l.active
        /\ view.result = "notFound" <=> \A l \in view.hit : ~l.active
        /\ view.result = "page" =>
              \E l \in links : l.token = view.path.rest /\ l.show = view.show

\* C16: once a toggle to inactive has completed the link's token resolves to
\* not-found for as long as the link stays inactive, and once a toggle to
\* active has completed the same token resolves again, to the same show.
C16_DeactivationIsReversible ==
    [][ToggleTakesEffect /\ OnlyTogglesSwitch /\ ResolvesByFlag']_vars

\* the token of a link that was switched off and on again renders the page
C16_Witness ==
    /\ PageAnswered
    /\ view.reactivated
    /\ view.result = "page"

\* --------------------------------------------------------------------- C17
\* a request sent to a table with the anon or the authenticated role
ClientRequested ==
    /\ access.kind = "client"
    /\ access.role \in {"anon", "authenticated"}

Calculated == fresh /\ result # NoResult

AllFinite(r) ==
    /\ r.grossRevenue.cls = "finite"
    /\ r.taxAmount.cls = "finite"
    /\ r.netProfit.cls = "finite"
    /\ r.artistPayout.cls = "finite"
    /\ r.venuePayout.cls = "finite"

\* C18: for every input that passes validation, the stored result satisfies
\* venuePayout + artistPayout = netProfit, where
\* netProfit = grossRevenue - taxAmount - totalExpenses.
C18_PayoutsAddUpToNetProfit ==
    Calculated =>
        /\ AllFinite(result)
        /\ result.venuePayout.k + result.artistPayout.k = result.netProfit.k
        /\ result.netProfit.k =
              result.grossRevenue.k - result.taxAmount.k - result.totalExpenses.k

\* what does hold: when no value overflows, the payouts add up to the net
\* profit within half a spacing of the numbers around the venue payout
PayoutsAddUpWithinRounding ==
    (Calculated /\ AllFinite(result)) =>
        2 * Abs(result.venuePayout.k + result.artistPayout.k - result.netProfit.k)
            <= Ulp(Abs(result.netProfit.k - result.artistPayout.k))

\* --------------------------------------------------------------------- C19
\* C19: for every input that passes validation, under each deal type and also
\* when netProfit is negative, the stored artistPayout is >= 0.
C19_ArtistPayoutNeverNegative ==
    Calculated => LessOrEqual(Zero, result.artistPayout)

\* what does hold: the artist payout is >= 0 whenever the net profit is a
\* number, negative ones included
ArtistPayoutNeverNegativeOfNumber ==
    (Calculated /\ result.netProfit # NaN) =>
        LessOrEqual(Zero, result.artistPayout)

NegativeNetProfitReached ==
    /\ Calculated
    /\ result.netProfit.cls = "finite"
    /\ result.netProfit.k < 0
    /\ formData.dealType = "percentage"

\* --------------------------------------------------------------------- C20
NotPositive(value) == LessOrEqual(parseNumber(value), Zero)

TicketsMissing == NotPositive(formData.ticketPrice) \/ NotPositive(formData.ticketsSold)

GuaranteeMissing ==
    formData.dealType = "guarantee" /\ NotPositive(formData.guarantee)

PercentageMissing ==
    formData.dealType = "percentage" /\ NotPositive(formData.percentage)

BothMissing ==
    /\ formData.dealType = "guarantee_vs_percentage"
    /\ NotPositive(formData.guarantee) \/ NotPositive(formData.percentage)

Rejected(message) == result = NoResult /\ errorMessage = message

\* C20: handleCalculate stores no result and sets an error message when ticket
\* price or tickets sold is <= 0, or the deal type's guarantee or percentage is
\* <= 0; the ticket check comes first and decides the message when it fails;
\* inputs that pass every check give a result and an empty error message.
C20_ValidationOrder ==
    fresh =>
        /\ TicketsMissing =>
              Rejected("Please enter valid ticket price and tickets sold.")
        /\ (~TicketsMissing /\ GuaranteeMissing) =>
              Rejected("Please enter a valid guarantee amount.")
        /\ (~TicketsMissing /\ PercentageMissing) =>
              Rejected("Please enter a valid percentage.")
        /\ (~TicketsMissing /\ BothMissing) =>
              Rejected("Please enter both guarantee amount and percentage.")
        /\ ~(TicketsMissing \/ GuaranteeMissing \/ PercentageMissing \/ BothMissing) =>
              /\ result # NoResult
              /\ errorMessage = ""

\* the ticket check and the deal check both fail
C20_Witness ==
    /\ fresh
    /\ TicketsMissing
    /\ BothMissing
    /\ formData.ticketPrice # Blank
    /\ errorMessage = "Please enter valid ticket price and tickets sold."

\* --------------------------------------------------------------------- C21
\* the parsed fields of the form
Parsed(name) == parseNumber(formData[name])

\* netProfit * (percentage / 100), clamped at 0
PercentageShare == MathMax(Zero, Times(result.netProfit, Percent(Parsed("percentage"))))

\* the artist payout of each deal type
PayoutAsClaimed ==
    /\ formData.dealType = "guarantee" => result.artistPayout = Parsed("guarantee")
    /\ formData.dealType = "percentage" => result.artistPayout = PercentageShare
    /\ formData.dealType = "guarantee_vs_percentage" =>
          result.artistPayout = MathMax(Parsed("guarantee"), PercentageShare)

\* C21 as stated: for every validated input grossRevenue = ticketPrice *
\* ticketsSold, taxAmount = grossRevenue * taxRate / 100 (the product divided
\* by 100), netProfit = grossRevenue - taxAmount - totalExpenses, and the
\* artist payout is the guarantee, the clamped percentage share, or the larger
\* of the two, by deal type.
C21_SettlementFormulas ==
    Calculated =>
        /\ result.grossRevenue = Times(Parsed("ticketPrice"), Parsed("ticketsSold"))
        /\ result.taxAmount = Percent(Times(result.grossRevenue, Parsed("taxRate")))
        /\ result.netProfit =
              Minus(Minus(result.grossRevenue, result.taxAmount), result.totalExpenses)
        /\ PayoutAsClaimed

\* C21 amended: the same formulas with the rate divided by 100 before the
\* multiplication, taxAmount = grossRevenue * (taxRate / 100), every
\* operation rounded as the program's numbers are; venuePayout is
\* netProfit - artistPayout.
C21_SettlementFormulasRateFirst ==
    Calculated =>
        /\ result.grossRevenue = Times(Parsed("ticketPrice"), Parsed("ticketsSold"))
        /\ result.taxAmount = Times(result.grossRevenue, Percent(Parsed("taxRate")))
        /\ result.totalExpenses = Parsed("totalExpenses")
        /\ result.netProfit =
              Minus(Minus(result.grossRevenue, result.taxAmount), result.totalExpenses)
        /\ PayoutAsClaimed
        /\ result.venuePayout = Minus(result.netProfit, result.artistPayout)

\* a guarantee_vs_percentage deal with tax where the percentage share is the
\* larger amount
C21_Witness ==
    /\ Calculated
    /\ formData.dealType = "guarantee_vs_percentage"
    /\ result.taxAmount # Zero
    /\ result.artistPayout # Parsed("guarantee")
    /\ AllFinite(result)

\* --------------------------------------------------------------------- C22
\* what may have been on screen before a calculation: nothing, a message, or
\* the result of another form
OtherForms ==
    {[EmptyForm EXCEPT !.ticketPrice = Typed(10, 1), !.ticketsSold = Typed(3, 1),
                       !.guarantee = Typed(5, 1)],
     [EmptyForm EXCEPT !.ticketPrice = Typed(99, 10), !.ticketsSold = Typed(3, 1),
                       !.totalExpenses = Typed(501, 10), !.dealType = "percentage",
                       !.percentage = Typed(85, 1)]}

EarlierScreens ==
    {Shown(NoResult, ""), Shown(NoResult, "Please enter a valid percentage.")}
    \cup {Shown(Settle(f), "") : f \in OtherForms}

DetailsChecked == access.kind = "details"

NoRowOf(u) == EntsByUser(ents, u) = {}

\* C23: hasProAccess(userId) is false whenever the user has no entitlement row
\* or the lookup returns an error, and so is hasProAccessClient (also when
\* nobody is signed in); getEntitlementDetails in those cases reports
\* hasAccess false with no entitlement.
C23_AccessFailsClosed ==
    DetailsChecked =>
        /\ (access.failed \/ NoRowOf(access.user)) => ~access.result
        /\ (access.detailsFailed \/ NoRowOf(access.user)) =>
              access.details = [hasAccess |-> FALSE, entitlement |-> NoEntitlement]
        /\ (access.clientFailed \/ access.signedIn = NULL \/ NoRowOf(access.signedIn)) =>
              ~access.client

\* every lookup failed for a user whose stored entitlement is active for life
C23_Witness ==
    /\ DetailsChecked
    /\ access.failed
    /\ access.detailsFailed
    /\ access.clientFailed
    /\ access.signedIn = access.user
    /\ \E r \in EntsByUser(ents, access.user) :
          r.status = "active" /\ r.expires_at = NullTime

\* --------------------------------------------------------------------- C24
\* C24: a session that started without a show id creates at most one show
\* record, whatever sequence of save actions is made: the first successful
\* save inserts, every later one updates that record.
C24_AtMostOneShowCreated == Len(shows) <= 1

\* --------------------------------------------------------------------- C27
\* C27: in every show record written by handleSaveShow the stored results are
\* the settlement computed from the stored inputs of that record.
C27_SnapshotConsistent ==
    \A i \in DOMAIN shows : shows[i].results = Settle(shows[i].inputs)

\* --------------------------------------------------------------------- C30
\* C30: while an insert or update sent by handleSaveShow has not resolved,
\* saveStatus is "saving" (the button is disabled), whatever timers fire.
C30_SavingUntilResolved == flight # {} => saveStatus = "saving"

\* --------------------------------------------------------------------- C25
\* a step that processes a checkout completed or subscription updated event
SyncDelivery ==
    /\ last.kind = "none"
    /\ last'.kind = "webhook"
    /\ last'.req.sig = "valid"
    /\ last'.req.secretSet
    /\ last'.req.ev.type \in {CheckoutCompleted, SubscriptionUpdated}

OnlyStripeEntitlement(u) ==
    /\ EntsByUser(ents, u) # {}
    /\ \A e \in EntsByUser(ents, u) : e.source = "stripe"

ProxyAnswer ==
    IF view.result \in {"redirect:/login", "redirect:/dashboard"} THEN view.result
    ELSE "pass"

ProxyAnswered == view.pc # "idle"

\* C26 as stated: a path under /api/webhooks/ is passed through whoever asks;
\* otherwise an authenticated request for /login is redirected to /dashboard,
\* and an unauthenticated request for any path other than /login and
\* /auth/callback* is redirected to /login.
C26_ProxyRouting ==
    ProxyAnswered =>
        IF view.path.prefix = "/api/webhooks/" THEN ProxyAnswer = "pass"
        ELSE /\ (view.caller # NULL /\ view.path.prefix = "/login") =>
                    ProxyAnswer = "redirect:/dashboard"
             /\ (view.caller = NULL /\ view.path.prefix \notin {"/login", "/auth/callback"}) =>
                    ProxyAnswer = "redirect:/login"

\* C26, amended: the same, except that the version of the proxy with
\* isPublicSharePage passes every path under /s/ as well; every other request
\* is passed through.
C26_ProxyRoutingByVersion ==
    ProxyAnswered =>
        IF view.path.prefix = "/api/webhooks/" THEN ProxyAnswer = "pass"
        ELSE IF view.path.prefix = "/s/" /\ view.version = "isPublicSharePage"
        THEN ProxyAnswer = "pass"
        ELSE IF view.caller # NULL /\ view.path.prefix = "/login"
        THEN ProxyAnswer = "redirect:/dashboard"
        ELSE IF view.caller = NULL /\ view.path.prefix \notin {"/login", "/auth/callback"}
        THEN ProxyAnswer = "redirect:/login"
        ELSE ProxyAnswer = "pass"

\* an unauthenticated webhook request was passed through by proxy.ts
C26_Witness ==
    /\ ProxyAnswered
    /\ view.version = "proxy.ts"
    /\ view.caller = NULL
    /\ view.path.prefix = "/api/webhooks/"
    /\ ProxyAnswer = "pass"

\* --------------------------------------------------------------------- C28
\* every concurrent handler has returned
HandlersFinished == \A p \in Procs : pc[p] = "done"

\* C28: once all handlers have finished, a user's entitlement with source
\* stripe is active only if that user's subscription mirror row has status
\* active or trialing.
C28_ActiveEntitlementHasActiveMirror ==
    HandlersFinished =>
        \A e \in ents :
            (e.source = "stripe" /\ e.status = "active") =>
                \E r \in SubsByUser(subs, e.user) : r.status \in {"active", "trialing"}

\* --------------------------------------------------------------------- C29
\* a 'subscription deleted' or 'invoice payment failed' event whose mirror
\* update succeeded and whose entitlement update failed was delivered again
PartialFailureRedelivered ==
    /\ again.kind = "redelivered"
    /\ last.req.ev.type \in {SubscriptionDeleted, InvoicePaymentFailed}
    /\ last.ops = 3
    /\ last.req.env.okMirror
    /\ ~last.req.env.okEnt

\* C29: after such a redelivery the stripe entitlement of the subscription's
\* owner is inactive.
C29_RedeliveryHealsPartialFailure ==
    PartialFailureRedelivered =>
        \A r \in SubsBySubId(subs, last.req.ev.sub) :
            \A e \in EntsByUser(ents, r.user) :
                e.source = "stripe" => e.status = "inactive"

====
